---- MODULE Spec2Model ----
(***************************************************************************)
(* CAPM / Fama-French regression notebook                                  *)
(* (src/CAPM_Fama_Regression_Notebook.ipynb).                              *)
(*                                                                         *)
(* Three specifications over one set of variables:                         *)
(*   Spec     the driver cell "Beginning the analysis": closing prices ->  *)
(*            log returns -> first row dropped -> gap repair -> risk-free  *)
(*            alignment -> excess returns -> zero-to-missing pass;         *)
(*   SpecReg  regression_capm / regression_fama: the per-column loop over  *)
(*            a table of excess returns and a regressor panel;             *)
(*   SpecDiag combined_tests followed by durbin_watson_capm on the tables  *)
(*            a regression call returned.                                  *)
(*                                                                         *)
(* Numbers are exact rationals [k, n, d]; NaN is the value with k = "nan". *)
(* Prices are powers of two and log returns are counted in units of ln 2,  *)
(* so np.log of a price ratio is computed exactly.                         *)
(***************************************************************************)
EXTENDS Integers, Sequences, FiniteSets, TLC

VARIABLES
    pc,                           \* position in the driver cell / in the regression function
    df_closing_etf,               \* closing-price table of the ETFs
    df_closing_mutual,            \* closing-price table of the mutual funds
    df_riskfree,                  \* risk-free table ('Dates', 'ln riskfree')
    df_raw_log_etf_returns,       \* calculate_log_returns(df_closing_etf)
    df_raw_log_mutual_returns,    \* calculate_log_returns(df_closing_mutual)
    df1,                          \* ETF return table (repaired in place)
    df2,                          \* mutual-fund return table (repaired in place)
    df_riskfree_aligned,          \* df_riskfree reindexed onto df1.index
    df_log_excess_return_etf,     \* excess returns of the ETFs
    df_log_excess_return_mutual,  \* excess returns of the mutual funds
    log_excess_return,            \* regression_*: the table of series to regress
    df_regressor,                 \* regression_*: the regressor panel
    column_pos,                   \* regression_*: position of the loop in the numeric columns
    results_list,                 \* regression_*: the result records appended so far
    residuals_dict,               \* regression_*: column -> residual list, in insertion order
    fitted_values_dict,           \* regression_*: column -> fitted-value list, in insertion order
    results_df,                   \* regression_*: returned result table
    residuals_df,                 \* regression_*: returned residual table
    fitted_values_df,             \* regression_*: returned fitted-value table
    raised,                       \* the exception that left the function, if any
    regressor,                    \* combined_tests: the regressor panel it is handed
    index_labels,                 \* dtype of the row labels, and the labels pd.to_datetime rejects
    residuals,                    \* combined_tests: residual sample of the last column
    fitted_values,                \* combined_tests: fitted-value sample of the last column
    regressor_filtered,           \* combined_tests: regressor rows of the last column
    results_bp_df,                \* combined_tests: rows of the Breusch-Pagan table
    results_white_df,             \* combined_tests: rows of the White table
    shapiro_results,              \* combined_tests: rows of the Shapiro-Wilk table
    jarque_bera_results,          \* combined_tests: rows of the Jarque-Bera table
    printed,                      \* combined_tests: the columns an error message was printed for
    dw_df                         \* durbin_watson_capm: rows of the Durbin-Watson table

tvars == <<df_closing_etf, df_closing_mutual, df_riskfree, df_raw_log_etf_returns,
           df_raw_log_mutual_returns, df1, df2, df_riskfree_aligned,
           df_log_excess_return_etf, df_log_excess_return_mutual>>

rvars == <<log_excess_return, df_regressor, column_pos, results_list, residuals_dict,
           fitted_values_dict, results_df, residuals_df, fitted_values_df, raised>>

dvars == <<regressor, index_labels, residuals, fitted_values, regressor_filtered,
           results_bp_df, results_white_df, shapiro_results, jarque_bera_results,
           printed, dw_df>>

vars == <<pc, tvars, rvars, dvars>>

(***************************************************************************)
(* Bounds of the model.                                                    *)
(***************************************************************************)
\* most rows of the ETF closing-price table
MaxRows == 5
\* rows of the mutual-fund closing-price table
MutualRows == 2
\* rows of the table of series handed to regression_capm / regression_fama
NObs == 4

(***************************************************************************)
(* Floating-point values: NaN and exact rationals n/d (d > 0, lowest       *)
(* terms).                                                                 *)
(***************************************************************************)
Abs(x) == IF x < 0 THEN -x ELSE x

RECURSIVE GCD(_, _)
GCD(a, b) == IF b = 0 THEN a ELSE GCD(b, a % b)

NaN == [k |-> "nan", n |-> 0, d |-> 1]

Num(a, b) ==
    LET s == IF b < 0 THEN -1 ELSE 1
        g == GCD(Abs(a), Abs(b))
    IN  [k |-> "num", n |-> (s * a) \div g, d |-> (s * b) \div g]

Int2Num(a) == Num(a, 1)

isna(v) == v.k = "nan"
notna(v) == v.k # "nan"
\* v == 0 (False for NaN)
EqZero(v) == v.k = "num" /\ v.n = 0
\* v != 0 (True for NaN)
NeZero(v) == ~EqZero(v)

Add(x, y) == IF isna(x) \/ isna(y) THEN NaN ELSE Num(x.n * y.d + y.n * x.d, x.d * y.d)
Sub(x, y) == IF isna(x) \/ isna(y) THEN NaN ELSE Num(x.n * y.d - y.n * x.d, x.d * y.d)
\* x / y for a positive divisor (prices are positive)
Div(x, y) == IF isna(x) \/ isna(y) THEN NaN ELSE Num(x.n * y.d, x.d * y.n)

\* np.log of a ratio of two powers of two, in units of ln 2
RECURSIVE Log2Units(_, _)
Log2Units(a, b) ==
    IF a = b THEN 0
    ELSE IF a > b THEN 1 + Log2Units(a, 2 * b)
    ELSE Log2Units(2 * a, b) - 1

np_log(q) == IF isna(q) THEN NaN ELSE Int2Num(Log2Units(q.n, q.d))

(***************************************************************************)
(* Tables.  A table is [index, Date, col]: index the sequence of row       *)
(* labels, col a function column name -> (label -> value); Date is the     *)
(* date column (label -> date), present until set_index makes it the       *)
(* index.                                                                  *)
(***************************************************************************)
Range(s) == {s[i] : i \in 1..Len(s)}

RECURSIVE SeqSum(_)
SeqSum(s) == IF s = <<>> THEN Int2Num(0) ELSE Add(Head(s), SeqSum(Tail(s)))

SetMin(S) == CHOOSE x \in S : \A y \in S : x <= y
SetMax(S) == CHOOSE x \in S : \A y \in S : x >= y

\* the sub-sequence of index whose labels satisfy keep
RECURSIVE SelectLabels(_, _)
SelectLabels(index, keep) ==
    IF index = <<>> THEN <<>>
    ELSE IF Head(index) \in keep THEN <<Head(index)>> \o SelectLabels(Tail(index), keep)
    ELSE SelectLabels(Tail(index), keep)

\* position of label l in index
Pos(index, l) == CHOOSE i \in 1..Len(index) : index[i] = l

\* the elements of a finite set of integers, ascending
RECURSIVE SortedSeq(_)
SortedSeq(S) == IF S = {} THEN <<>> ELSE <<SetMin(S)>> \o SortedSeq(S \ {SetMin(S)})

NoTable == [index |-> <<>>, col |-> <<>>]
\* an empty dict: its keys in insertion order, and their values
NoDict == [keys |-> <<>>, val |-> <<>>]
NoException == [type |-> "none", column |-> "none"]

NoSeries == [index |-> <<>>, val |-> <<>>]
\* row labels of dtype datetime64, none of which pd.to_datetime rejects
DatetimeLabels == [dtype |-> "datetime64", unconvertible |-> {}]

\* the diagnostic functions have not been called
NoDiagnostics ==
    /\ regressor = NoTable
    /\ index_labels = DatetimeLabels
    /\ residuals = NoSeries
    /\ fitted_values = NoSeries
    /\ regressor_filtered = NoTable
    /\ results_bp_df = <<>>
    /\ results_white_df = <<>>
    /\ shapiro_results = <<>>
    /\ jarque_bera_results = <<>>
    /\ printed = <<>>
    /\ dw_df = <<>>

ColNames(df) == DOMAIN df.col

\* one column of a table as a series [index, val]
Column(df, name) == [index |-> df.index, val |-> df.col[name]]

(***************************************************************************)
(* Return Transform                                                        *)
(***************************************************************************)
\* Series.shift(1): every value moves one row down, the first row is NaN
shift1(index, c) ==
    [l \in Range(index) |->
        IF Pos(index, l) = 1 THEN NaN ELSE c[index[Pos(index, l) - 1]]]

\* the mutant of calculate_log_returns with the conventional direction ln(curr / prev)
calculate_log_returns_curr_over_prev(df) ==
    [index |-> df.index,
     Date  |-> df.Date,
     col   |-> [name \in ColNames(df) |->
                  [l \in Range(df.index) |->
                      np_log(Div(df.col[name][l], shift1(df.index, df.col[name])[l]))]]]

\* np.log(df.iloc[:, 1:].shift(1) / df.iloc[:, 1:]), the date column put back
calculate_log_returns(df) ==
    [index |-> df.index,
     Date  |-> df.Date,
     col   |-> [name \in ColNames(df) |->
                  [l \in Range(df.index) |->
                      np_log(Div(shift1(df.index, df.col[name])[l], df.col[name][l]))]]]

\* the mutant of DropFirstRow that keeps every row
DropNoRow(df) == df

\* df[1:]: the rows after the first
DropFirstRow(df) ==
    LET index == IF df.index = <<>> THEN <<>> ELSE Tail(df.index)
    IN  [index |-> index,
         Date  |-> [l \in Range(index) |-> df.Date[l]],
         col   |-> [name \in ColNames(df) |-> [l \in Range(index) |-> df.col[name][l]]]]

\* series[(series != 0) & series.notna()]
valid_labels(series) ==
    {l \in Range(series.index) : NeZero(series.val[l]) /\ notna(series.val[l])}

\* valid_values.mean()
mean_of(series, labels) ==
    LET vals == SelectLabels(series.index, labels)
        total == SeqSum([i \in 1..Len(vals) |-> series.val[vals[i]]])
    IN  IF labels = {} THEN NaN
        ELSE IF isna(total) THEN NaN
        ELSE Num(total.n, total.d * Cardinality(labels))

\* the mutant of replace_nans_and_zeros_with_mean that fills the NaN values only
replace_nans_with_mean(series) ==
    LET valid == valid_labels(series)
        overall_mean == mean_of(series, valid)
    IN  IF valid = {} THEN series
        ELSE [series EXCEPT !.val =
                [l \in Range(series.index) |->
                    IF isna(series.val[l]) /\ l >= SetMin(valid) /\ l <= SetMax(valid)
                    THEN overall_mean ELSE series.val[l]]]

\* the mutant of replace_nans_and_zeros_with_mean that fills every NaN or zero of the series
replace_nans_and_zeros_everywhere(series) ==
    LET valid == valid_labels(series)
        overall_mean == mean_of(series, valid)
    IN  IF valid = {} THEN series
        ELSE [series EXCEPT !.val =
                [l \in Range(series.index) |->
                    IF EqZero(series.val[l]) \/ isna(series.val[l])
                    THEN overall_mean ELSE series.val[l]]]

\* the mutant of replace_nans_and_zeros_with_mean that fills only the first gap of the span
replace_first_gap_with_mean(series) ==
    LET valid == valid_labels(series)
        overall_mean == mean_of(series, valid)
    IN  IF valid = {} THEN series
        ELSE LET mask == {l \in Range(series.index) :
                            /\ (EqZero(series.val[l]) \/ isna(series.val[l]))
                            /\ l >= SetMin(valid)
                            /\ l <= SetMax(valid)}
             IN  [series EXCEPT !.val =
                    [l \in Range(series.index) |->
                        IF l \in mask /\ l = SetMin(mask) THEN overall_mean
                        ELSE series.val[l]]]

replace_nans_and_zeros_with_mean(series) ==
    LET valid == valid_labels(series)
        overall_mean == mean_of(series, valid)
    IN  IF valid = {} THEN series
        ELSE LET first_valid_index == SetMin(valid)
                 last_valid_index == SetMax(valid)
                 mask == {l \in Range(series.index) :
                            /\ (EqZero(series.val[l]) \/ isna(series.val[l]))
                            /\ l >= first_valid_index
                            /\ l <= last_valid_index}
             IN  [series EXCEPT !.val =
                    [l \in Range(series.index) |->
                        IF l \in mask THEN overall_mean ELSE series.val[l]]]

\* for col in df.columns: if col != 'Date': df[col] = replace_nans_and_zeros_with_mean(df[col].copy())
RepairColumns(df) ==
    [df EXCEPT !.col =
        [name \in ColNames(df) |-> replace_nans_and_zeros_with_mean(Column(df, name)).val]]

(***************************************************************************)
(* Excess Return Aligner                                                   *)
(***************************************************************************)
\* df.set_index('Date'): the dates become the row labels
set_index(df) ==
    LET index == [i \in 1..Len(df.index) |-> df.Date[df.index[i]]]
    IN  [index |-> index,
         col   |-> [name \in ColNames(df) |->
                      [t \in Range(index) |->
                          df.col[name][CHOOSE l \in Range(df.index) : df.Date[l] = t]]]]

\* value of a series at label t after alignment: NaN for a label it does not have
At(series, t) == IF t \in Range(series.index) THEN series.val[t] ELSE NaN

\* df.reindex(index)
reindex(df, index) ==
    [index |-> index,
     col   |-> [name \in ColNames(df) |->
                  [t \in Range(index) |-> At(Column(df, name), t)]]]

\* df.subtract(series, axis=0): outer join of the two indexes, cell by cell difference
subtract(df, series) ==
    LET index == IF Range(df.index) = Range(series.index) THEN df.index
                 ELSE SortedSeq(Range(df.index) \cup Range(series.index))
    IN  [index |-> index,
         col   |-> [name \in ColNames(df) |->
                      [t \in Range(index) |->
                          Sub(At(Column(df, name), t), At(series, t))]]]

\* df.where(df == 0, other): the cell of df where it is zero, the cell of other elsewhere
where_zero(df, other) ==
    [index |-> df.index,
     col   |-> [name \in ColNames(df) |->
                  [t \in Range(df.index) |->
                      IF EqZero(df.col[name][t]) THEN df.col[name][t]
                      ELSE At(Column(other, name), t)]]]

\* df.where(df == 0, df.subtract(df_riskfree_aligned['ln riskfree'], axis=0))
excess_return(df, aligned) == where_zero(df, subtract(df, Column(aligned, "ln riskfree")))

\* the mutant of replace_zero_with_nan that leaves the table as it is
replace_nothing(df) == df

\* df.replace(0.00, np.nan, inplace=True)
replace_zero_with_nan(df) ==
    [df EXCEPT !.col =
        [name \in ColNames(df) |->
            [t \in Range(df.index) |->
                IF EqZero(df.col[name][t]) THEN NaN ELSE df.col[name][t]]]]

(***************************************************************************)
(* The workbooks read by the loading cell.  Closing prices are missing     *)
(* (NaN) or a positive price 1, 2 or 4; the sheets are read with a         *)
(* RangeIndex 0..n-1 and their dates in a column.                          *)
(***************************************************************************)
PriceVals == {NaN, Int2Num(1), Int2Num(2), Int2Num(4)}
MutualPriceVals == {Int2Num(1), Int2Num(2)}
RiskFreeVals == {Int2Num(1)}

\* a sheet of n rows whose dates are first, first + 1, ... and whose one column is c
Sheet(first, n, name, c) ==
    [index |-> [i \in 1..n |-> i - 1],
     Date  |-> [l \in 0..(n - 1) |-> first + l],
     col   |-> [x \in {name} |-> [l \in 0..(n - 1) |-> c[l + 1]]]]

ClosingEtfSheets ==
    UNION {{Sheet(1, n, "ETF", c) : c \in [1..n -> PriceVals]} : n \in 1..MaxRows}

\* the mutual-fund sheet starts one date after the ETF sheet
ClosingMutualSheets ==
    {Sheet(2, MutualRows, "MUT", c) : c \in [1..MutualRows -> MutualPriceVals]}

\* the risk-free column covers the dates 2..r+1; its rate is the same on every date
RiskFreeSheets ==
    UNION {{Sheet(2, r, "ln riskfree", [i \in 1..r |-> v]) : v \in RiskFreeVals} :
              r \in {1, MaxRows}}

(***************************************************************************)
(* The driver cell "Beginning the analysis", one action per statement      *)
(* group.                                                                  *)
(***************************************************************************)
Init ==
    /\ pc = "log_returns"
    /\ df_closing_etf \in ClosingEtfSheets
    /\ df_closing_mutual \in ClosingMutualSheets
    /\ df_riskfree \in RiskFreeSheets
    /\ df_raw_log_etf_returns = NoTable
    /\ df_raw_log_mutual_returns = NoTable
    /\ df1 = NoTable
    /\ df2 = NoTable
    /\ df_riskfree_aligned = NoTable
    /\ df_log_excess_return_etf = NoTable
    /\ df_log_excess_return_mutual = NoTable
    /\ log_excess_return = NoTable
    /\ df_regressor = NoTable
    /\ column_pos = 0
    /\ results_list = <<>>
    /\ residuals_dict = NoDict
    /\ fitted_values_dict = NoDict
    /\ results_df = <<>>
    /\ residuals_df = NoTable
    /\ fitted_values_df = NoTable
    /\ raised = NoException
    /\ NoDiagnostics

\* df_raw_log_..._returns = calculate_log_returns(df_closing_...); df1, df2 = pd.DataFrame(...)
LogReturns ==
    /\ pc = "log_returns"
    /\ df_raw_log_etf_returns' = calculate_log_returns(df_closing_etf)
    /\ df_raw_log_mutual_returns' = calculate_log_returns(df_closing_mutual)
    /\ df1' = calculate_log_returns(df_closing_etf)
    /\ df2' = calculate_log_returns(df_closing_mutual)
    /\ pc' = "drop_first"
    /\ UNCHANGED <<rvars, dvars>>
    /\ UNCHANGED <<df_closing_etf, df_closing_mutual, df_riskfree, df_riskfree_aligned,
                   df_log_excess_return_etf, df_log_excess_return_mutual>>

\* df1 = df1[1:]; df2 = df2[1:]
DropFirst ==
    /\ pc = "drop_first"
    /\ df1' = DropFirstRow(df1)
    /\ df2' = DropFirstRow(df2)
    /\ pc' = "repair_etf"
    /\ UNCHANGED <<rvars, dvars>>
    /\ UNCHANGED <<df_closing_etf, df_closing_mutual, df_riskfree, df_raw_log_etf_returns,
                   df_raw_log_mutual_returns, df_riskfree_aligned,
                   df_log_excess_return_etf, df_log_excess_return_mutual>>

\* for col in df1.columns: df1[col] = replace_nans_and_zeros_with_mean(df1[col].copy())
RepairEtf ==
    /\ pc = "repair_etf"
    /\ df1' = RepairColumns(df1)
    /\ pc' = "repair_mutual"
    /\ UNCHANGED <<rvars, dvars>>
    /\ UNCHANGED <<df_closing_etf, df_closing_mutual, df_riskfree, df_raw_log_etf_returns,
                   df_raw_log_mutual_returns, df2, df_riskfree_aligned,
                   df_log_excess_return_etf, df_log_excess_return_mutual>>

\* for col in df2.columns: df2[col] = replace_nans_and_zeros_with_mean(df2[col].copy())
RepairMutual ==
    /\ pc = "repair_mutual"
    /\ df2' = RepairColumns(df2)
    /\ pc' = "align"
    /\ UNCHANGED <<rvars, dvars>>
    /\ UNCHANGED <<df_closing_etf, df_closing_mutual, df_riskfree, df_raw_log_etf_returns,
                   df_raw_log_mutual_returns, df1, df_riskfree_aligned,
                   df_log_excess_return_etf, df_log_excess_return_mutual>>

\* df1.set_index('Date'); df_riskfree.set_index('Dates'); df_riskfree_aligned = df_riskfree.reindex(df1.index)
Align ==
    /\ pc = "align"
    /\ df1' = set_index(df1)
    /\ df_riskfree' = set_index(df_riskfree)
    /\ df_riskfree_aligned' = reindex(set_index(df_riskfree), set_index(df1).index)
    /\ pc' = "excess_etf"
    /\ UNCHANGED <<rvars, dvars>>
    /\ UNCHANGED <<df_closing_etf, df_closing_mutual, df_raw_log_etf_returns,
                   df_raw_log_mutual_returns, df2,
                   df_log_excess_return_etf, df_log_excess_return_mutual>>

\* df_log_excess_return_etf = df1.where(df1 == 0, df1.subtract(df_riskfree_aligned['ln riskfree'], axis=0))
ExcessEtf ==
    /\ pc = "excess_etf"
    /\ df_log_excess_return_etf' = excess_return(df1, df_riskfree_aligned)
    /\ pc' = "excess_mutual"
    /\ UNCHANGED <<rvars, dvars>>
    /\ UNCHANGED <<df_closing_etf, df_closing_mutual, df_riskfree, df_raw_log_etf_returns,
                   df_raw_log_mutual_returns, df1, df2, df_riskfree_aligned,
                   df_log_excess_return_mutual>>

\* df2.set_index('Date'); df_log_excess_return_mutual = df2.where(df2 == 0, df2.subtract(...))
ExcessMutual ==
    /\ pc = "excess_mutual"
    /\ df2' = set_index(df2)
    /\ df_log_excess_return_mutual' = excess_return(set_index(df2), df_riskfree_aligned)
    /\ pc' = "zero_pass"
    /\ UNCHANGED <<rvars, dvars>>
    /\ UNCHANGED <<df_closing_etf, df_closing_mutual, df_riskfree, df_raw_log_etf_returns,
                   df_raw_log_mutual_returns, df1, df_riskfree_aligned,
                   df_log_excess_return_etf>>

\* the four replace(0.00, np.nan, inplace=True)
ZeroPass ==
    /\ pc = "zero_pass"
    /\ df1' = replace_zero_with_nan(df1)
    /\ df_log_excess_return_etf' = replace_zero_with_nan(df_log_excess_return_etf)
    /\ df2' = replace_zero_with_nan(df2)
    /\ df_log_excess_return_mutual' = replace_zero_with_nan(df_log_excess_return_mutual)
    /\ pc' = "done"
    /\ UNCHANGED <<rvars, dvars>>
    /\ UNCHANGED <<df_closing_etf, df_closing_mutual, df_riskfree, df_raw_log_etf_returns,
                   df_raw_log_mutual_returns, df_riskfree_aligned>>

Next ==
    \/ LogReturns
    \/ DropFirst
    \/ RepairEtf
    \/ RepairMutual
    \/ Align
    \/ ExcessEtf
    \/ ExcessMutual
    \/ ZeroPass

Spec == Init /\ [][Next]_vars

(***************************************************************************)
(* Claims about the Return Transform and the Excess Return Aligner         *)
(* (specification Spec).                                                   *)
(***************************************************************************)
\* the return tables as they enter and as they leave gap repair: <<before, after>>
RawEtf == DropFirstRow(df_raw_log_etf_returns)
RawMutual == DropFirstRow(df_raw_log_mutual_returns)
RepairedPairs == {<<RawEtf, df1>>, <<RawMutual, df2>>}

\* a valid observation: neither NaN nor exactly zero
IsValid(v) == v.k = "num" /\ v.n # 0
ValidSpan(c, index) == {l \in Range(index) : IsValid(c[l])}
InSpan(c, index, l) ==
    /\ \E a \in ValidSpan(c, index) : a <= l
    /\ \E b \in ValidSpan(c, index) : l <= b
\* the mean of the valid observations of column c
ValidMean(c, index) == mean_of([index |-> index, val |-> c], ValidSpan(c, index))

\* C1: gap repair is interior-only.  In every series, a position before the
\* first or after the last valid observation holds after the repair what it
\* held before, and a series with no valid observation is returned unchanged.
C1_InteriorOnly ==
    pc = "align" =>
        \A pair \in RepairedPairs : \A name \in ColNames(pair[1]) :
            LET before == pair[1].col[name]
                after == pair[2].col[name]
                index == pair[1].index
            IN  /\ pair[2].index = index
                /\ ValidSpan(before, index) = {} => after = before
                /\ \A l \in Range(index) :
                      ~InSpan(before, index, l) => after[l] = before[l]

\* C1 witness: an ETF series with a NaN or zero outside its valid span and a
\* repaired gap inside it, beside a mutual-fund series with no valid observation.
C1_Witness ==
    /\ pc = "align"
    /\ \E l, g \in Range(RawEtf.index) :
          /\ ~IsValid(RawEtf.col["ETF"][l])
          /\ ~InSpan(RawEtf.col["ETF"], RawEtf.index, l)
          /\ ~IsValid(RawEtf.col["ETF"][g])
          /\ InSpan(RawEtf.col["ETF"], RawEtf.index, g)
          /\ df1.col["ETF"][g] # RawEtf.col["ETF"][g]
    /\ ValidSpan(RawMutual.col["MUT"], RawMutual.index) = {}

\* C2 as claimed: inside the valid span every NaN or zero becomes the mean of
\* the valid values, every valid value is kept, and so no position inside the
\* span is NaN or zero after the call.
C2_SpanFilledNoZero ==
    pc = "align" =>
        \A pair \in RepairedPairs : \A name \in ColNames(pair[1]) :
            LET before == pair[1].col[name]
                after == pair[2].col[name]
                index == pair[1].index
            IN  \A l \in Range(index) :
                    InSpan(before, index, l) =>
                        /\ IsValid(before[l]) => after[l] = before[l]
                        /\ ~IsValid(before[l]) => after[l] = ValidMean(before, index)
                        /\ ~isna(after[l])
                        /\ ~EqZero(after[l])

\* C2 amended: inside the valid span every NaN or zero becomes the mean of the
\* valid values and every valid value is kept; a position inside the span is
\* NaN or zero after the call only if that mean is itself NaN or zero.
C2_SpanFilledWithMean ==
    pc = "align" =>
        \A pair \in RepairedPairs : \A name \in ColNames(pair[1]) :
            LET before == pair[1].col[name]
                after == pair[2].col[name]
                index == pair[1].index
                mean == ValidMean(before, index)
            IN  \A l \in Range(index) :
                    InSpan(before, index, l) =>
                        /\ IsValid(before[l]) => after[l] = before[l]
                        /\ ~IsValid(before[l]) => after[l] = mean
                        /\ (isna(after[l]) \/ EqZero(after[l])) =>
                              (isna(mean) \/ EqZero(mean))

\* C2 witness: NaN values inside the valid span of an ETF series, replaced by
\* a mean that is neither zero nor one of the valid values, which are kept.
C2_Witness ==
    /\ pc = "align"
    /\ \E l \in Range(RawEtf.index) :
          /\ isna(RawEtf.col["ETF"][l])
          /\ InSpan(RawEtf.col["ETF"], RawEtf.index, l)
          /\ df1.col["ETF"][l] = ValidMean(RawEtf.col["ETF"], RawEtf.index)
          /\ IsValid(df1.col["ETF"][l])
          /\ \A g \in ValidSpan(RawEtf.col["ETF"], RawEtf.index) :
                df1.col["ETF"][g] = RawEtf.col["ETF"][g] /\ df1.col["ETF"][g] # df1.col["ETF"][l]

\* the price tables and the return tables made from them: <<prices, returns>>
ClosingPairs == {<<df_closing_etf, df1>>, <<df_closing_mutual, df2>>}

\* e for the price 2^e
Exponent(p) == CHOOSE e \in 0..2 : p.n = 2^e
\* ln(prev / curr) in units of ln 2
LnPrevOverCurr(prev, curr) ==
    IF isna(prev) \/ isna(curr) THEN NaN ELSE Int2Num(Exponent(prev) - Exponent(curr))

\* C3: a price table of n rows gives return series of n-1 rows: the first row
\* is excluded, and the value at each remaining row t is ln(price[t-1] / price[t]),
\* computed from that pair alone.
C3_LogReturnRows ==
    pc = "repair_etf" =>
        \A pair \in ClosingPairs :
            LET prices == pair[1]
                returns == pair[2]
            IN  /\ Len(returns.index) = Len(prices.index) - 1
                /\ prices.index[1] \notin Range(returns.index)
                /\ ColNames(returns) = ColNames(prices)
                /\ \A t \in 2..Len(prices.index) :
                      /\ returns.index[t - 1] = prices.index[t]
                      /\ returns.Date[prices.index[t]] = prices.Date[prices.index[t]]
                      /\ \A name \in ColNames(prices) :
                            returns.col[name][prices.index[t]] =
                                LnPrevOverCurr(prices.col[name][prices.index[t - 1]],
                                               prices.col[name][prices.index[t]])

\* C3 witness: an ETF price table of four rows or more whose returns hold a
\* positive, a negative and a missing value.
C3_Witness ==
    /\ pc = "repair_etf"
    /\ Len(df_closing_etf.index) >= 4
    /\ Len(df1.index) = Len(df_closing_etf.index) - 1
    /\ \E a, b, c \in Range(df1.index) :
          /\ df1.col["ETF"][a].k = "num" /\ df1.col["ETF"][a].n > 0
          /\ df1.col["ETF"][b].k = "num" /\ df1.col["ETF"][b].n < 0
          /\ isna(df1.col["ETF"][c])

\* the return tables and their excess return tables: <<returns, excess returns>>
ExcessPairs == {<<df1, df_log_excess_return_etf>>, <<df2, df_log_excess_return_mutual>>}

\* the risk-free value at timestamp t, NaN when the risk-free series has no row for t
RiskFreeAt(t) == At(Column(df_riskfree, "ln riskfree"), t)

\* C4: in the ETF and in the mutual-fund table, a cell whose return is exactly
\* zero stays zero and every other cell is return - riskFree[t], with the
\* risk-free value of the same timestamp; the cell is missing on account of the
\* risk-free series only when that series has no value at t.
C4_ExcessReturnCells ==
    pc = "zero_pass" =>
        \A pair \in ExcessPairs :
            LET returns == pair[1]
                excess == pair[2]
            IN  /\ excess.index = returns.index
                /\ \A name \in ColNames(returns) : \A t \in Range(returns.index) :
                      excess.col[name][t] =
                          IF EqZero(returns.col[name][t]) THEN returns.col[name][t]
                          ELSE Sub(returns.col[name][t], RiskFreeAt(t))

\* C5: the second pass leaves no exact zero in the raw and the excess return
\* tables: every cell that was zero is missing afterwards and every other cell
\* keeps its value.
C5_ZeroPassStep ==
    [][pc = "zero_pass" =>
        \A pair \in {<<df1, df1'>>, <<df2, df2'>>,
                     <<df_log_excess_return_etf, df_log_excess_return_etf'>>,
                     <<df_log_excess_return_mutual, df_log_excess_return_mutual'>>} :
            /\ pair[2].index = pair[1].index
            /\ ColNames(pair[2]) = ColNames(pair[1])
            /\ \A name \in ColNames(pair[1]) : \A t \in Range(pair[1].index) :
                  /\ ~EqZero(pair[2].col[name][t])
                  /\ EqZero(pair[1].col[name][t]) => isna(pair[2].col[name][t])
                  /\ ~EqZero(pair[1].col[name][t]) =>
                        pair[2].col[name][t] = pair[1].col[name][t]]_vars

\* the ETF tables as they enter the second pass
Df1BeforeZeroPass == set_index(RepairColumns(RawEtf))
ExcessEtfBeforeZeroPass == excess_return(Df1BeforeZeroPass, df_riskfree_aligned)

\* C5 witness: after the pass, a zero return and a zero excess return of a
\* non-zero return have become missing, and a non-zero excess return is kept.
C5_Witness ==
    /\ pc = "done"
    /\ \E t, u, v \in Range(df1.index) :
          /\ EqZero(Df1BeforeZeroPass.col["ETF"][t])
          /\ isna(df1.col["ETF"][t])
          /\ isna(df_log_excess_return_etf.col["ETF"][t])
          /\ IsValid(Df1BeforeZeroPass.col["ETF"][u])
          /\ EqZero(ExcessEtfBeforeZeroPass.col["ETF"][u])
          /\ isna(df_log_excess_return_etf.col["ETF"][u])
          /\ df1.col["ETF"][u] = Df1BeforeZeroPass.col["ETF"][u]
          /\ IsValid(ExcessEtfBeforeZeroPass.col["ETF"][v])
          /\ df_log_excess_return_etf.col["ETF"][v] = ExcessEtfBeforeZeroPass.col["ETF"][v]

(***************************************************************************)
(* Regression Engine: regression_capm and regression_fama.                 *)
(*                                                                         *)
(* A table here is [index, columns, dtype, col]: columns the column names  *)
(* in order, dtype their storage types.  The numbers OLS computes are not  *)
(* modelled: the residual and the fitted value of the row with timestamp t *)
(* are the opaque finite values Resid(t) and Fitted(t), which keep the     *)
(* row they were computed for.                                             *)
(***************************************************************************)
NumericDtypes == {"float64", "int64"}

\* df.select_dtypes(include=['float64', 'int64']).columns
select_dtypes(df) == SelectSeq(df.columns, LAMBDA c : df.dtype[c] \in NumericDtypes)

\* the regressor columns of the design: df_regressor_capm['ln excess'].astype(float)
capm_X(reg) == <<"ln excess">>
\* df_regressor_fama.select_dtypes(include=['float64', 'int64'])
fama_X(reg) == select_dtypes(reg)

\* pd.concat([y, X], axis=1): the outer join of the two indexes
concat_index(y, reg) ==
    y.index \o SelectLabels(reg.index, Range(reg.index) \ Range(y.index))

\* the mutant of dropna_rows that drops a row only when the series value is missing
dropna_rows_y_only(y, reg, xcols) ==
    SelectLabels(concat_index(y, reg), {t \in Range(concat_index(y, reg)) : notna(At(y, t))})

\* pd.concat([y, X], axis=1).dropna(): the labels of the rows with no missing cell
dropna_rows(y, reg, xcols) ==
    SelectLabels(concat_index(y, reg),
                 {t \in Range(concat_index(y, reg)) :
                     /\ notna(At(y, t))
                     /\ \A i \in 1..Len(xcols) : notna(At(Column(reg, xcols[i]), t))})

\* add_constant's test of a column over the rows: np.ptp(s) == 0 and np.any(s != 0)
\* (a missing cell makes np.ptp NaN, so the column is not a constant)
is_nonzero_const(c, rows) ==
    /\ rows # <<>>
    /\ \A a \in Range(rows) : notna(At(c, a))
    /\ \A a, b \in Range(rows) : At(c, a) = At(c, b)
    /\ \E a \in Range(rows) : NeZero(At(c, a))

\* sm.add_constant(X, has_constant='skip'): the design columns; no intercept
\* column is added when a column is already a non-zero constant over the rows
add_constant(reg, xcols, rows) ==
    IF \E i \in 1..Len(xcols) : is_nonzero_const(Column(reg, xcols[i]), rows)
    THEN xcols
    ELSE <<"const">> \o xcols

Resid(t) == [k |-> "resid", n |-> t, d |-> 1]
Fitted(t) == [k |-> "fitted", n |-> t, d |-> 1]

\* results.resid / results.fittedvalues: one value per estimation row
resid_series(rows) == [index |-> rows, val |-> [t \in Range(rows) |-> Resid(t)]]
fitted_series(rows) == [index |-> rows, val |-> [t \in Range(rows) |-> Fitted(t)]]

\* the mutant of reindex_tolist that lists the values in estimation order, then NaN
values_then_nan(series, index) ==
    [i \in 1..Len(index) |->
        IF i <= Len(series.index) THEN series.val[series.index[i]] ELSE NaN]

\* pd.Series(values).reindex(index).tolist()
reindex_tolist(series, index) == [i \in 1..Len(index) |-> At(series, index[i])]

\* dict[column] = values
dict_set(dict, key, values) ==
    IF key \in Range(dict.keys)
    THEN [dict EXCEPT !.val = [k \in Range(dict.keys) |-> IF k = key THEN values ELSE dict.val[k]]]
    ELSE [keys |-> Append(dict.keys, key),
          val  |-> [k \in Range(dict.keys) \cup {key} |->
                       IF k = key THEN values ELSE dict.val[k]]]

\* pd.DataFrame(dict, index=index): one column per key, list position i at row index[i]
DataFrame(dict, index) ==
    [index   |-> index,
     columns |-> dict.keys,
     dtype   |-> [k \in Range(dict.keys) |-> "float64"],
     col     |-> [k \in Range(dict.keys) |->
                    [t \in Range(index) |-> dict.val[k][Pos(index, t)]]]]

\* the mutant of append_row that puts the new record first
prepend_row(list, row) == <<row>> \o list

\* results_list.append(result_dict)
append_row(list, row) == Append(list, row)

\* the coefficient fields of a CAPM record: results.params[0], results.params[1]
capm_coefficients(xcols) == <<"Alpha", "Beta">>
\* the coefficient fields of a Fama-French record: results.params[0], then
\* results.params[i + 1] for i, regressor in enumerate(X.columns)
fama_coefficients(xcols) == <<"Alpha">> \o [i \in 1..Len(xcols) |-> xcols[i]]

\* one pass of the loop body for `column`: the exception it raises, or the
\* record and the two lists it stores
loop_body(column, xcols, coefficients) ==
    LET y == Column(log_excess_return, column)
        rows == dropna_rows(y, df_regressor, xcols)
        params == add_constant(df_regressor, xcols, rows)
    IN  IF rows = <<>>
        THEN [raises |-> "ValueError"]
        ELSE IF Len(params) < Len(coefficients)
        THEN [raises |-> "IndexError"]
        ELSE [raises |-> "none",
              result_dict |-> [Fund |-> column, coef |-> coefficients, nobs |-> Len(rows)],
              resid  |-> reindex_tolist(resid_series(rows), log_excess_return.index),
              fitted |-> reindex_tolist(fitted_series(rows), log_excess_return.index)]

\* the state after one pass of the loop of regression_capm / regression_fama
regression_iter(xcols, coefficients) ==
    LET columns == select_dtypes(log_excess_return)
        column == columns[column_pos]
        body == loop_body(column, xcols, coefficients)
    IN  /\ column_pos <= Len(columns)
        /\ IF body.raises # "none"
           THEN /\ raised' = [type |-> body.raises, column |-> column]
                /\ pc' = "raised"
                /\ UNCHANGED <<column_pos, results_list, residuals_dict, fitted_values_dict>>
           ELSE /\ results_list' = append_row(results_list, body.result_dict)
                /\ residuals_dict' = dict_set(residuals_dict, column, body.resid)
                /\ fitted_values_dict' = dict_set(fitted_values_dict, column, body.fitted)
                /\ column_pos' = column_pos + 1
                /\ UNCHANGED <<pc, raised>>
        /\ UNCHANGED <<log_excess_return, df_regressor, results_df, residuals_df,
                       fitted_values_df>>
        /\ UNCHANGED <<tvars, dvars>>

\* the loop is over: the three tables are built and returned
regression_return ==
    /\ column_pos > Len(select_dtypes(log_excess_return))
    /\ results_df' = results_list
    /\ residuals_df' = DataFrame(residuals_dict, log_excess_return.index)
    /\ fitted_values_df' = DataFrame(fitted_values_dict, log_excess_return.index)
    /\ pc' = "returned"
    /\ UNCHANGED <<log_excess_return, df_regressor, column_pos, results_list,
                   residuals_dict, fitted_values_dict, raised>>
    /\ UNCHANGED <<tvars, dvars>>

regression_capm_iter ==
    /\ pc = "regression_capm"
    /\ regression_iter(capm_X(df_regressor), capm_coefficients(capm_X(df_regressor)))

regression_capm_return ==
    /\ pc = "regression_capm"
    /\ regression_return

regression_fama_iter ==
    /\ pc = "regression_fama"
    /\ regression_iter(fama_X(df_regressor), fama_coefficients(fama_X(df_regressor)))

regression_fama_return ==
    /\ pc = "regression_fama"
    /\ regression_return

(***************************************************************************)
(* The tables handed to the regression functions.                          *)
(***************************************************************************)
One == Int2Num(1)
Text == [k |-> "text", n |-> 0, d |-> 1]

SeriesDates == 1..NObs
Ascending(S) == SortedSeq(S)
Descending(S) == [i \in 1..Cardinality(S) |-> SortedSeq(S)[Cardinality(S) + 1 - i]]

\* a fund that traded throughout, never, from the second date on, or up to the last but one
SecondFundColumns ==
    {[t \in SeriesDates |-> One],
     [t \in SeriesDates |-> NaN],
     [t \in SeriesDates |-> IF t = 1 THEN NaN ELSE One],
     [t \in SeriesDates |-> IF t = NObs THEN NaN ELSE One]}

\* two funds with a text column between them, the dates ascending or descending
SeriesTables ==
    {[index   |-> index,
      columns |-> <<"F1", "Note", "F2">>,
      dtype   |-> [c \in {"F1", "Note", "F2"} |-> IF c = "Note" THEN "object" ELSE "float64"],
      col     |-> [c \in {"F1", "Note", "F2"} |->
                     IF c = "F1" THEN f1 ELSE IF c = "F2" THEN f2
                     ELSE [t \in SeriesDates |-> Text]]] :
        index \in {Ascending(SeriesDates), Descending(SeriesDates)},
        f1 \in [SeriesDates -> {NaN, One}],
        f2 \in SecondFundColumns}

\* the regressor sheet covers the dates of the series or starts one date later
RegressorDateSets == {SeriesDates, {t + 1 : t \in SeriesDates}}

\* market excess returns: a different value on every date, some of them
\* missing, or the same value on every date
MarketColumns(dates) ==
    {[t \in dates |-> IF t \in present THEN Int2Num(t) ELSE NaN] : present \in SUBSET dates}
        \cup {[t \in dates |-> One]}

CapmRegressors ==
    UNION {{[index   |-> Ascending(dates),
             columns |-> <<"ln excess">>,
             dtype   |-> [c \in {"ln excess"} |-> "float64"],
             col     |-> [c \in {"ln excess"} |-> market]] :
               market \in MarketColumns(dates)} : dates \in RegressorDateSets}

\* HML is complete or lacks its first date; SMB is complete, read as floats or as objects
FamaRegressors ==
    UNION {{[index   |-> Ascending(dates),
             columns |-> <<"ln excess", "SMB", "HML">>,
             dtype   |-> [c \in {"ln excess", "SMB", "HML"} |->
                            IF c = "SMB" THEN smb_dtype ELSE "float64"],
             col     |-> [c \in {"ln excess", "SMB", "HML"} |->
                            IF c = "ln excess" THEN market
                            ELSE IF c = "SMB" THEN [t \in dates |-> Int2Num(t * t)]
                            ELSE [t \in dates |->
                                    IF hml_gap /\ t = SetMin(dates) THEN NaN
                                    ELSE Int2Num(t * t * t)]]] :
               market \in MarketColumns(dates),
               smb_dtype \in {"float64", "object"},
               hml_gap \in BOOLEAN} : dates \in RegressorDateSets}

InitReg ==
    /\ \/ pc = "regression_capm" /\ df_regressor \in CapmRegressors
       \/ pc = "regression_fama" /\ df_regressor \in FamaRegressors
    /\ log_excess_return \in SeriesTables
    /\ column_pos = 1
    /\ results_list = <<>>
    /\ residuals_dict = NoDict
    /\ fitted_values_dict = NoDict
    /\ results_df = <<>>
    /\ residuals_df = NoTable
    /\ fitted_values_df = NoTable
    /\ raised = NoException
    /\ NoDiagnostics
    /\ df_closing_etf = NoTable
    /\ df_closing_mutual = NoTable
    /\ df_riskfree = NoTable
    /\ df_raw_log_etf_returns = NoTable
    /\ df_raw_log_mutual_returns = NoTable
    /\ df1 = NoTable
    /\ df2 = NoTable
    /\ df_riskfree_aligned = NoTable
    /\ df_log_excess_return_etf = NoTable
    /\ df_log_excess_return_mutual = NoTable

NextReg ==
    \/ regression_capm_iter
    \/ regression_capm_return
    \/ regression_fama_iter
    \/ regression_fama_return

SpecReg == InitReg /\ [][NextReg]_vars


(***************************************************************************)
(* Claims about the Regression Engine (specification SpecReg).             *)
(***************************************************************************)
\* the series columns that are fitted, in the order of the input table
FittedColumns ==
    SelectSeq(log_excess_return.columns,
              LAMBDA c : log_excess_return.dtype[c] \in {"float64", "int64"})

\* the regressor columns of the design: the market factor for CAPM, the
\* numeric columns of the panel for Fama-French
DesignColumns ==
    IF Len(df_regressor.columns) = 1 THEN {"ln excess"}
    ELSE {c \in Range(df_regressor.columns) : df_regressor.dtype[c] \in {"float64", "int64"}}

\* the timestamps at which the series and every regressor of the design have a value
EstimationRows(column) ==
    {t \in Range(log_excess_return.index) \cap Range(df_regressor.index) :
        /\ ~isna(log_excess_return.col[column][t])
        /\ \A c \in DesignColumns : ~isna(df_regressor.col[c][t])}

\* the timestamps at which a column of a table is not missing: reindexed, then dropna()
NonMissing(df, column) == {t \in Range(df.index) : ~isna(df.col[column][t])}

\* factor count of the model: 1 for CAPM, 3 for Fama-French
FactorCount == Len(df_regressor.columns)

\* C6: round trip.  For every fitted series the timestamps at which the
\* returned residual column, and the fitted-value column, is not missing are
\* exactly the rows used in estimation: those at which the series and every
\* regressor have a value.
C6_RoundTrip ==
    pc = "returned" =>
        \A i \in 1..Len(FittedColumns) :
            /\ NonMissing(residuals_df, FittedColumns[i]) = EstimationRows(FittedColumns[i])
            /\ NonMissing(fitted_values_df, FittedColumns[i]) = EstimationRows(FittedColumns[i])
            /\ \E j \in 1..Len(results_df) :
                  /\ results_df[j].Fund = FittedColumns[i]
                  /\ results_df[j].nobs = Cardinality(EstimationRows(FittedColumns[i]))

\* C6 witness: a returned CAPM fit of F1 on two rows or more, one row dropped
\* for a missing regressor value and one for a missing value of F1.
C6_Witness ==
    /\ pc = "returned"
    /\ FactorCount = 1
    /\ Cardinality(NonMissing(residuals_df, "F1")) >= 2
    /\ \E t \in Range(log_excess_return.index) :
          /\ ~isna(log_excess_return.col["F1"][t])
          /\ t \notin NonMissing(residuals_df, "F1")
    /\ \E t \in Range(log_excess_return.index) \cap Range(df_regressor.index) :
          /\ isna(log_excess_return.col["F1"][t])
          /\ \A c \in DesignColumns : ~isna(df_regressor.col[c][t])

\* C7: the residual table and the fitted-value table have the time index of
\* the input table, in its order, and one column per regressed series; a
\* timestamp dropped for a series is a missing cell of its column, and every
\* other cell holds the value computed for its own timestamp.
C7_OriginalIndex ==
    pc = "returned" =>
        /\ residuals_df.index = log_excess_return.index
        /\ fitted_values_df.index = log_excess_return.index
        /\ residuals_df.columns = FittedColumns
        /\ fitted_values_df.columns = FittedColumns
        /\ \A i \in 1..Len(FittedColumns) : \A t \in Range(log_excess_return.index) :
              IF t \in EstimationRows(FittedColumns[i])
              THEN /\ residuals_df.col[FittedColumns[i]][t] = Resid(t)
                   /\ fitted_values_df.col[FittedColumns[i]][t] = Fitted(t)
              ELSE /\ isna(residuals_df.col[FittedColumns[i]][t])
                   /\ isna(fitted_values_df.col[FittedColumns[i]][t])

\* C7 witness: returned tables over a descending index in which the first row
\* is missing for F1 and present for F2, and a later row is present for F1.
C7_Witness ==
    /\ pc = "returned"
    /\ residuals_df.index = Descending(SeriesDates)
    /\ isna(residuals_df.col["F1"][residuals_df.index[1]])
    /\ residuals_df.col["F2"][residuals_df.index[1]] = Resid(residuals_df.index[1])
    /\ \E i \in 2..Len(residuals_df.index) :
          residuals_df.col["F1"][residuals_df.index[i]] = Resid(residuals_df.index[i])

\* C8: the result table has exactly one row per fitted (numeric) column of the
\* input table, in the order of those columns.
C8_ResultRowOrder ==
    pc = "returned" =>
        /\ Len(results_df) = Len(FittedColumns)
        /\ \A i \in 1..Len(FittedColumns) : results_df[i].Fund = FittedColumns[i]

\* C8 witness: a returned Fama-French result table of two rows, F1 then F2,
\* each fitted on four rows or more, from an input table whose text column
\* lies between them.
C8_Witness ==
    /\ pc = "returned"
    /\ FactorCount = 3
    /\ \A j \in 1..Len(results_df) : results_df[j].nobs >= 4
    /\ log_excess_return.columns = <<"F1", "Note", "F2">>
    /\ Len(results_df) = 2
    /\ results_df[1].Fund = "F1"
    /\ results_df[2].Fund = "F2"

\* C9: when fewer observations than factor count + 1 remain for a series, the
\* fit fails with InsufficientDataError and no result row is recorded for it.
C9_InsufficientData ==
    /\ \A i \in 1..Len(results_list) : results_list[i].nobs >= FactorCount + 1
    /\ (pc = "raised" /\ Cardinality(EstimationRows(raised.column)) < FactorCount + 1)
          => raised.type = "InsufficientDataError"

\* C10: a failure while processing one series does not abort the remaining
\* ones: every later series of the input order is still processed and has its
\* results, and the failed series is reported with its identity.
C10_FailureIsolated ==
    pc \in {"raised", "returned"} =>
        \A i \in 1..Len(FittedColumns) :
            \/ \E j \in 1..Len(results_list) : results_list[j].Fund = FittedColumns[i]
            \/ raised.column = FittedColumns[i]

(***************************************************************************)
(* Diagnostic Suite: combined_tests and durbin_watson_capm, called as the  *)
(* analysis cells call them: on the residual and fitted-value tables a     *)
(* regression call returned, with the table of series it was given.        *)
(* SpecDiag runs the regression call first and the two functions after it. *)
(*                                                                         *)
(* A test statistic is not computed as a number: it is the record of the   *)
(* samples the test function was handed, so two statistics are equal when  *)
(* the test saw the same data.  Timestamps are unique in every index.      *)
(***************************************************************************)
\* Series.dropna(): the rows with a value, in the order of the series
dropna(series) ==
    LET keep == {t \in Range(series.index) : notna(series.val[t])}
    IN  [index |-> SelectLabels(series.index, keep), val |-> [t \in keep |-> series.val[t]]]

\* Series.sort_index(): the rows by ascending label
sort_index(series) == [series EXCEPT !.index = SortedSeq(Range(series.index))]

\* pd.api.types.is_datetime64_any_dtype(index)
is_datetime64_any_dtype(labels) == labels.dtype = "datetime64"

\* pd.to_datetime(index) raises: some label of the index cannot be parsed
to_datetime_raises(index, labels) == \E t \in Range(index) : t \in labels.unconvertible

\* .loc[labels] raises KeyError when a label is not in the index
loc_raises(index, labels) == ~(Range(labels) \subseteq Range(index))

\* the mutant of loc that takes the first rows of the series, as many as there are labels
head_rows(series, labels) ==
    LET index == SubSeq(series.index, 1, Len(labels))
    IN  [index |-> index, val |-> [t \in Range(index) |-> series.val[t]]]

\* series.loc[labels]: the rows with these labels, in the order of the labels
loc(series, labels) == [index |-> labels, val |-> [t \in Range(labels) |-> series.val[t]]]

\* regressor.loc[labels].sort_index(): the rows of the panel with these labels
loc_rows(df, labels) ==
    [index   |-> sort_index(loc(Column(df, df.columns[1]), labels)).index,
     columns |-> df.columns,
     dtype   |-> df.dtype,
     col     |-> [c \in Range(df.columns) |-> loc(Column(df, c), labels).val]]

\* the values of a series, row by row
values(series) == [i \in 1..Len(series.index) |-> series.val[series.index[i]]]

\* het_breuschpagan(resid, exog_het) / het_white(resid, exog): the statistic of
\* the residuals paired row by row with the rows of the design
het_test(resid, exog, design) ==
    [resid |-> values(resid),
     exog  |-> [i \in 1..Len(exog.index) |->
                  [c \in Range(exog.columns) |-> exog.col[c][exog.index[i]]]],
     design |-> design]

\* the heteroskedasticity tests raise ValueError unless the design has at least
\* two columns, one of them constant
het_test_raises(design) == Len(design) < 2

\* stats.shapiro / stats.jarque_bera: a statistic of the sample, whatever its order
sample_test(resid) == Range(values(resid))

\* durbin_watson(resids): sum of squared successive differences over the sum of
\* squares: the neighbouring pairs of the sample, read in either direction
durbin_watson(resids) ==
    [pairs  |-> {{resids[i], resids[i + 1]} : i \in 1..(Len(resids) - 1)},
     sample |-> Range(resids)]

(***************************************************************************)
(* The tables handed to the diagnostic functions.                          *)
(***************************************************************************)
\* the dates in neither ascending nor descending order
Unsorted(S) ==
    [i \in 1..Cardinality(S) |->
        IF i = 1 THEN SortedSeq(S)[2] ELSE IF i = 2 THEN SortedSeq(S)[1] ELSE SortedSeq(S)[i]]

\* the tables of series, their dates in any of the three orders
DiagSeriesTables ==
    SeriesTables \cup
        {[tbl EXCEPT !.index = Unsorted(SeriesDates)] :
            tbl \in {x \in SeriesTables : x.index = Ascending(SeriesDates)}}

\* the row labels are timestamps, or objects that all parse as dates, or objects
\* of which the last date does not parse
IndexLabelKinds ==
    {DatetimeLabels,
     [dtype |-> "object", unconvertible |-> {}],
     [dtype |-> "object", unconvertible |-> {NObs}]}

\* the regressor panels with at most one missing market return
DiagRegressors(panels) ==
    {reg \in panels :
        Cardinality({t \in Range(reg.index) : isna(reg.col["ln excess"][t])}) <= 1}

\* combined_tests is handed the panel of the fit, or a panel that lacks its first date
HandedRegressors(reg) == {reg, [reg EXCEPT !.index = Tail(reg.index)]}

\* combined_tests(residuals_df, fitted_values_df, regressor, dataset["data"], ...) on
\* the tables the regression call returned
combined_tests_call ==
    /\ pc = "returned"
    /\ regressor' \in HandedRegressors(df_regressor)
    /\ column_pos' = 1
    /\ pc' = "combined_tests"
    /\ UNCHANGED <<index_labels, residuals, fitted_values, regressor_filtered, results_bp_df,
                   results_white_df, shapiro_results, jarque_bera_results, printed, dw_df>>
    /\ UNCHANGED <<log_excess_return, df_regressor, results_list, residuals_dict,
                   fitted_values_dict, results_df, residuals_df, fitted_values_df, raised>>
    /\ UNCHANGED tvars

\* the state after one pass of the loop of combined_tests
combined_tests_iter ==
    /\ pc = "combined_tests"
    /\ column_pos <= Len(residuals_df.columns)
    /\ LET column == residuals_df.columns[column_pos]
           dropped == dropna(Column(residuals_df, column))
           sorted == sort_index(dropped)
           matching_indices == sorted.index
           design == add_constant(regressor, regressor.columns, matching_indices)
       IN  IF /\ ~is_datetime64_any_dtype(index_labels)
              /\ to_datetime_raises(dropped.index, index_labels)
           THEN \* except Exception: print(...); continue
                /\ residuals' = dropped
                /\ printed' = Append(printed, column)
                /\ column_pos' = column_pos + 1
                /\ UNCHANGED <<pc, raised, fitted_values, regressor_filtered, results_bp_df,
                               results_white_df, shapiro_results, jarque_bera_results>>
           ELSE IF \/ loc_raises(fitted_values_df.index, matching_indices)
                   \/ loc_raises(log_excess_return.index, matching_indices)
                   \/ loc_raises(regressor.index, matching_indices)
           THEN /\ residuals' = sorted
                /\ raised' = [type |-> "KeyError", column |-> column]
                /\ pc' = "raised"
                /\ UNCHANGED <<column_pos, printed, fitted_values, regressor_filtered,
                               results_bp_df, results_white_df, shapiro_results,
                               jarque_bera_results>>
           ELSE /\ residuals' = sorted
                /\ fitted_values' =
                       sort_index(loc(Column(fitted_values_df, column), matching_indices))
                /\ regressor_filtered' = loc_rows(regressor, matching_indices)
                /\ IF het_test_raises(design)
                   THEN /\ raised' = [type |-> "ValueError", column |-> column]
                        /\ pc' = "raised"
                        /\ UNCHANGED <<column_pos, printed, results_bp_df, results_white_df,
                                       shapiro_results, jarque_bera_results>>
                   ELSE /\ results_bp_df' = Append(results_bp_df,
                               [Fund |-> column,
                                stat |-> het_test(residuals', regressor_filtered', design)])
                        /\ results_white_df' = Append(results_white_df,
                               [Fund |-> column,
                                stat |-> het_test(residuals', regressor_filtered', design)])
                        \* stats.shapiro on fewer than 3 values raises ValueError or,
                        \* in later releases of scipy, returns NaN
                        /\ \E shapiro_raises \in
                                 (IF Len(matching_indices) < 3 THEN BOOLEAN ELSE {FALSE}) :
                              IF shapiro_raises
                              THEN /\ raised' = [type |-> "ValueError", column |-> column]
                                   /\ pc' = "raised"
                                   /\ UNCHANGED <<column_pos, shapiro_results,
                                                  jarque_bera_results>>
                              ELSE /\ shapiro_results' = Append(shapiro_results,
                                          [Fund |-> column, stat |-> sample_test(residuals')])
                                   /\ jarque_bera_results' = Append(jarque_bera_results,
                                          [Fund |-> column, stat |-> sample_test(residuals')])
                                   /\ column_pos' = column_pos + 1
                                   /\ UNCHANGED <<pc, raised>>
                        /\ UNCHANGED printed
    /\ UNCHANGED <<regressor, index_labels, dw_df>>
    /\ UNCHANGED <<log_excess_return, df_regressor, results_list, residuals_dict,
                   fitted_values_dict, results_df, residuals_df, fitted_values_df>>
    /\ UNCHANGED tvars

\* the loop is over: the four tables are returned
combined_tests_return ==
    /\ pc = "combined_tests"
    /\ column_pos > Len(residuals_df.columns)
    /\ pc' = "durbin_watson_capm"
    /\ UNCHANGED <<tvars, rvars, dvars>>

\* dw_results = {column: durbin_watson(residuals_df[column].dropna()) for column in ...}
durbin_watson_capm ==
    /\ pc = "durbin_watson_capm"
    /\ dw_df' = [i \in 1..Len(residuals_df.columns) |->
                    [Fund |-> residuals_df.columns[i],
                     stat |-> durbin_watson(
                                  values(dropna(Column(residuals_df, residuals_df.columns[i]))))]]
    /\ pc' = "diagnosed"
    /\ UNCHANGED <<regressor, index_labels, residuals, fitted_values, regressor_filtered,
                   results_bp_df, results_white_df, shapiro_results, jarque_bera_results,
                   printed>>
    /\ UNCHANGED <<tvars, rvars>>

InitDiag ==
    /\ \/ pc = "regression_capm" /\ df_regressor \in DiagRegressors(CapmRegressors)
       \/ pc = "regression_fama" /\ df_regressor \in DiagRegressors(FamaRegressors)
    /\ log_excess_return \in DiagSeriesTables
    /\ index_labels \in IndexLabelKinds
    /\ column_pos = 1
    /\ results_list = <<>>
    /\ residuals_dict = NoDict
    /\ fitted_values_dict = NoDict
    /\ results_df = <<>>
    /\ residuals_df = NoTable
    /\ fitted_values_df = NoTable
    /\ raised = NoException
    /\ regressor = NoTable
    /\ residuals = NoSeries
    /\ fitted_values = NoSeries
    /\ regressor_filtered = NoTable
    /\ results_bp_df = <<>>
    /\ results_white_df = <<>>
    /\ shapiro_results = <<>>
    /\ jarque_bera_results = <<>>
    /\ printed = <<>>
    /\ dw_df = <<>>
    /\ df_closing_etf = NoTable
    /\ df_closing_mutual = NoTable
    /\ df_riskfree = NoTable
    /\ df_raw_log_etf_returns = NoTable
    /\ df_raw_log_mutual_returns = NoTable
    /\ df1 = NoTable
    /\ df2 = NoTable
    /\ df_riskfree_aligned = NoTable
    /\ df_log_excess_return_etf = NoTable
    /\ df_log_excess_return_mutual = NoTable

NextDiag ==
    \/ regression_capm_iter
    \/ regression_capm_return
    \/ regression_fama_iter
    \/ regression_fama_return
    \/ combined_tests_call
    \/ combined_tests_iter
    \/ combined_tests_return
    \/ durbin_watson_capm

SpecDiag == InitDiag /\ [][NextDiag]_vars

(***************************************************************************)
(* Claims about the Diagnostic Suite (specification SpecDiag).             *)
(***************************************************************************)
Last(s) == s[Len(s)]

\* the timestamps valid in the residual table, the fitted-value table and the
\* regressor panel for a series
ValidInAllThree(column) ==
    {t \in Range(residuals_df.index) :
        /\ notna(residuals_df.col[column][t])
        /\ notna(fitted_values_df.col[column][t])
        /\ t \in Range(regressor.index)
        /\ \A c \in Range(regressor.columns) : notna(regressor.col[c][t])}

\* the residuals and the regressor rows of a series at these timestamps, ascending
AlignedStat(column, design) ==
    LET ts == SortedSeq(ValidInAllThree(column))
    IN  [resid  |-> [j \in 1..Len(ts) |-> residuals_df.col[column][ts[j]]],
         exog   |-> [j \in 1..Len(ts) |->
                       [c \in Range(regressor.columns) |-> regressor.col[c][ts[j]]]],
         design |-> design]

\* the column whose samples combined_tests computed last
SampledColumn ==
    IF pc = "raised" THEN raised.column ELSE residuals_df.columns[column_pos - 1]

\* the last pass of the loop handed its samples to the tests
Sampled ==
    /\ results_bp_df # <<>>
    /\ Last(results_bp_df).Fund = SampledColumn

\* C11: for every series the residuals, the fitted values and the regressor
\* rows handed to the Breusch-Pagan and White tests have the same length and
\* the same timestamp sequence, the ascending intersection of the timestamps
\* valid in all three, so that row i of the residuals is paired with the
\* regressor row of the same timestamp.
C11_AlignedSamples ==
    /\ Len(results_white_df) = Len(results_bp_df)
    /\ \A i \in 1..Len(results_bp_df) :
          /\ results_bp_df[i].stat =
                 AlignedStat(results_bp_df[i].Fund, results_bp_df[i].stat.design)
          /\ results_white_df[i] = results_bp_df[i]
    /\ Sampled =>
          LET ts == SortedSeq(ValidInAllThree(SampledColumn))
          IN  /\ residuals.index = ts
              /\ fitted_values.index = ts
              /\ regressor_filtered.index = ts
              /\ \A t \in Range(ts) :
                    /\ residuals.val[t] = residuals_df.col[SampledColumn][t]
                    /\ fitted_values.val[t] = fitted_values_df.col[SampledColumn][t]
                    /\ \A c \in Range(regressor.columns) :
                          regressor_filtered.col[c][t] = regressor.col[c][t]

\* a series of a table with descending dates lost a timestamp in the fit and
\* its remaining rows were handed to the tests
C11_Witness ==
    /\ Sampled
    /\ residuals_df.index = Descending(SeriesDates)
    /\ Len(residuals.index) >= 3
    /\ Len(residuals.index) < NObs
    /\ Len(regressor.columns) = 3

\* the residuals of a series with the missing values dropped, by ascending timestamp
AscendingResiduals(column) == values(sort_index(dropna(Column(residuals_df, column))))

\* C12: every residual-derived statistic, the Durbin-Watson statistic included,
\* is computed on the residuals of its series with the missing values dropped
\* and ordered by ascending time index, whatever the order of the index of the
\* residual table.
C12_AscendingResiduals ==
    /\ \A i \in 1..Len(results_bp_df) :
          results_bp_df[i].stat.resid = AscendingResiduals(results_bp_df[i].Fund)
    /\ \A i \in 1..Len(results_white_df) :
          results_white_df[i].stat.resid = AscendingResiduals(results_white_df[i].Fund)
    /\ \A i \in 1..Len(shapiro_results) :
          shapiro_results[i].stat = Range(AscendingResiduals(shapiro_results[i].Fund))
    /\ \A i \in 1..Len(jarque_bera_results) :
          jarque_bera_results[i].stat = Range(AscendingResiduals(jarque_bera_results[i].Fund))
    /\ \A i \in 1..Len(dw_df) :
          dw_df[i].stat = durbin_watson(AscendingResiduals(dw_df[i].Fund))

\* the series of the rows of a diagnostic table, in row order
Funds(rows) == [i \in 1..Len(rows) |-> rows[i].Fund]

\* C13: the Breusch-Pagan, White, Shapiro-Wilk, Jarque-Bera and Durbin-Watson
\* tables each hold exactly one row per column of the residual table, for the
\* same series in the same order, also when a series is skipped in a test.
C13_MatchingIndexing ==
    pc = "diagnosed" =>
        /\ Funds(results_bp_df) = residuals_df.columns
        /\ Funds(results_white_df) = residuals_df.columns
        /\ Funds(shapiro_results) = residuals_df.columns
        /\ Funds(jarque_bera_results) = residuals_df.columns
        /\ Funds(dw_df) = residuals_df.columns

\* combined_tests has finished its pass over the i-th column of the residual table
Processed(i) ==
    \/ pc \in {"combined_tests", "durbin_watson_capm", "diagnosed"} /\ i < column_pos
    \/ /\ pc = "raised"
       /\ regressor # NoTable
       /\ raised.column = residuals_df.columns[i]

\* the residual index of a series cannot be reconciled with the regressor index:
\* it holds a label that is no date, or a timestamp the panel does not have
Irreconcilable(column) ==
    LET labels == dropna(Column(residuals_df, column)).index
    IN  \/ /\ ~is_datetime64_any_dtype(index_labels)
           /\ to_datetime_raises(labels, index_labels)
        \/ loc_raises(regressor.index, labels)

\* C14: for a series whose residual index and regressor index cannot be
\* reconciled the Breusch-Pagan test fails with IndexAlignmentError: no test
\* row, no silent skip, no other error.
C14_IndexAlignmentError ==
    regressor # NoTable =>
        \A i \in 1..Len(residuals_df.columns) :
            Processed(i) /\ Irreconcilable(residuals_df.columns[i]) =>
                /\ raised = [type |-> "IndexAlignmentError",
                             column |-> residuals_df.columns[i]]
                /\ \A j \in 1..Len(results_bp_df) :
                      results_bp_df[j].Fund # residuals_df.columns[i]

(***************************************************************************)
(* Further claims about the Regression Engine (specification SpecReg).     *)
(***************************************************************************)
\* C15: every result record has coefficient count = factor count + 1: the
\* intercept and one estimate for each column of the regressor panel (1 for
\* CAPM, 3 for Fama-French), whatever the storage type of the panel's columns.
C15_CoefficientCount ==
    \A i \in 1..Len(results_list) :
        /\ Len(results_list[i].coef) = FactorCount + 1
        /\ results_list[i].coef[1] = "Alpha"
        /\ FactorCount = 3 =>
              \A j \in 1..FactorCount : results_list[i].coef[j + 1] = df_regressor.columns[j]

(***************************************************************************)
(* Further claims about the driver cell (specification Spec).              *)
(***************************************************************************)
\* a step from the alignment on leaves the return tables, the risk-free series
\* and the closing-price tables as they are
FrameStep ==
    pc \in {"align", "excess_etf", "excess_mutual", "zero_pass"} =>
        /\ df1' = df1
        /\ df2' = df2
        /\ df_riskfree' = df_riskfree
        /\ df_closing_etf' = df_closing_etf
        /\ df_closing_mutual' = df_closing_mutual

\* C16: no table is mutated after construction except the return series during
\* gap repair: from the alignment step on, every step leaves the return tables,
\* the risk-free series and the closing-price tables as they are (cell values,
\* index and columns).
C16_FrameAfterRepair == [][FrameStep]_vars

\* C17: gap repair is idempotent.  For every series a second pass over the
\* repaired series changes no value, also when the mean of the valid values
\* is zero.
C17_RepairIdempotent ==
    pc = "align" =>
        \A pair \in RepairedPairs : \A name \in ColNames(pair[1]) :
            LET once == replace_nans_and_zeros_with_mean(Column(pair[1], name))
            IN  /\ Column(pair[2], name) = once
                /\ replace_nans_and_zeros_with_mean(once) = once

\* an ETF series with two gaps inside its valid span whose valid values have
\* the mean zero: the repair filled both gaps with zero
C17_Witness ==
    /\ pc = "align"
    /\ EqZero(ValidMean(RawEtf.col["ETF"], RawEtf.index))
    /\ \E l, g \in Range(RawEtf.index) :
          /\ l # g
          /\ ~IsValid(RawEtf.col["ETF"][l])
          /\ ~IsValid(RawEtf.col["ETF"][g])
          /\ InSpan(RawEtf.col["ETF"], RawEtf.index, l)
          /\ InSpan(RawEtf.col["ETF"], RawEtf.index, g)
          /\ EqZero(df1.col["ETF"][l])
          /\ EqZero(df1.col["ETF"][g])

\* the row of the raw ETF return table that holds timestamp t
RawEtfRow(t) == CHOOSE l \in Range(RawEtf.index) : RawEtf.Date[l] = t

\* C18: no genuine observation is lost by the zero-as-missing sentinel.  After
\* gap repair, alignment and the zero-to-missing pass, a cell of the ETF
\* excess return table whose return was valid and non-zero, or was a gap inside
\* the valid span, and whose timestamp has a risk-free value, is not missing.
C18_NoObservationLost ==
    pc = "done" =>
        \A t \in Range(df_log_excess_return_etf.index) :
            LET l == RawEtfRow(t)
            IN  /\ \/ IsValid(RawEtf.col["ETF"][l])
                   \/ InSpan(RawEtf.col["ETF"], RawEtf.index, l)
                /\ notna(RiskFreeAt(t))
                => notna(df_log_excess_return_etf.col["ETF"][t])

====
